---- MODULE Spec2Model ----
(***************************************************************************)
(* A model of the HTTP/1.1 server: the response encoder (response.rs,      *)
(* http.rs), the request decoder (request.rs), the connection lifecycle    *)
(* (connection.rs) and the accept loop (main.rs).                          *)
(*                                                                         *)
(* Bytes are one-character strings; a byte string (&[u8], Vec<u8>, String) *)
(* is a sequence of them.  An Option is a sequence of length 0 (None) or 1 *)
(* (Some).                                                                 *)
(***************************************************************************)
EXTENDS Integers, Sequences, FiniteSets, TLC

VARIABLES
    \* response.rs: the Response under construction and the calls made on it
    resp, calls, encoded, rpc,
    \* connection.rs / request.rs: one connection and its stream
    sent, input, peer, segmented, read_timeout, directory, files,
    wire, rdbuf, bytes_received, request, response, ops, outcome, pc,
    \* main.rs: the accept loop
    mpc, mclient, mline, mlog, served

respVars == <<resp, calls, encoded, rpc>>
connVars == <<sent, input, peer, segmented, read_timeout, directory, files,
              wire, rdbuf, bytes_received, request, response, ops, outcome, pc>>
mainVars == <<mpc, mclient, mline, mlog, served>>
vars == <<respVars, connVars, mainVars>>

----------------------------------------------------------------------------
(* Bytes *)

CR == "\r"
LF == "\n"
SP == " "
\* A byte that is not valid UTF-8 on its own (0xFF).
XFF == "<FF>"

None == <<>>
Some(x) == <<x>>

\* u8 values of the bytes the model uses (String and Vec<u8> order by them).
ByteVal(c) ==
    CASE c = LF -> 10 [] c = CR -> 13 [] c = SP -> 32
      [] c = "-" -> 45 [] c = "." -> 46 [] c = "/" -> 47
      [] c = "0" -> 48 [] c = "1" -> 49 [] c = "2" -> 50 [] c = "3" -> 51
      [] c = "4" -> 52 [] c = "5" -> 53 [] c = "6" -> 54 [] c = "7" -> 55
      [] c = "8" -> 56 [] c = "9" -> 57 [] c = ":" -> 58
      [] c = "A" -> 65 [] c = "B" -> 66 [] c = "C" -> 67 [] c = "E" -> 69
      [] c = "G" -> 71 [] c = "H" -> 72 [] c = "L" -> 76 [] c = "N" -> 78
      [] c = "O" -> 79 [] c = "P" -> 80 [] c = "R" -> 82 [] c = "S" -> 83
      [] c = "T" -> 84 [] c = "U" -> 85 [] c = "X" -> 88
      [] c = "a" -> 97 [] c = "b" -> 98 [] c = "c" -> 99 [] c = "d" -> 100
      [] c = "e" -> 101 [] c = "f" -> 102 [] c = "g" -> 103 [] c = "h" -> 104
      [] c = "i" -> 105 [] c = "l" -> 108 [] c = "n" -> 110 [] c = "o" -> 111
      [] c = "p" -> 112 [] c = "r" -> 114 [] c = "s" -> 115 [] c = "t" -> 116
      [] c = "u" -> 117 [] c = "w" -> 119 [] c = "x" -> 120 [] c = "y" -> 121
      [] c = "z" -> 122 [] c = XFF -> 255
      [] OTHER -> 63

\* Ordering of two byte strings: -1 (Less), 0 (Equal), 1 (Greater).
RECURSIVE CmpBytes(_, _)
CmpBytes(a, b) ==
    IF a = <<>> /\ b = <<>> THEN 0
    ELSE IF a = <<>> THEN -1
    ELSE IF b = <<>> THEN 1
    ELSE IF ByteVal(Head(a)) < ByteVal(Head(b)) THEN -1
    ELSE IF ByteVal(Head(a)) > ByteVal(Head(b)) THEN 1
    ELSE CmpBytes(Tail(a), Tail(b))

\* slice.starts_with / ends_with
StartsWith(s, p) == Len(s) >= Len(p) /\ SubSeq(s, 1, Len(p)) = p
EndsWith(s, p) == Len(s) >= Len(p) /\ SubSeq(s, Len(s) - Len(p) + 1, Len(s)) = p

\* s.windows(Len(p)).position(|x| x == p): the 0-based index of the first
\* occurrence of p in s, or -1 for None.
Position(s, p) ==
    LET hits == {i \in 0..(Len(s) - Len(p)) : SubSeq(s, i + 1, i + Len(p)) = p}
    IN IF hits = {} THEN -1 ELSE CHOOSE i \in hits : \A j \in hits : i <= j

\* usize::to_string: the decimal digits of n.
Digit(d) == <<"0", "1", "2", "3", "4", "5", "6", "7", "8", "9">>[d + 1]
RECURSIVE UsizeToString(_)
UsizeToString(n) ==
    IF n < 10 THEN <<Digit(n)>> ELSE UsizeToString(n \div 10) \o <<Digit(n % 10)>>

----------------------------------------------------------------------------
(* http.rs *)

VERSION == <<"H", "T", "T", "P", "/", "1", ".", "1">>
CRLF == <<CR, LF>>
GZIP == <<"g", "z", "i", "p">>
SUPPORTED_ENCODINGS == {GZIP}

ContentEncoding(v) == [kind |-> "ContentEncoding", name |-> <<>>, value |-> v]
ContentType(v) == [kind |-> "ContentType", name |-> <<>>, value |-> v]
Custom(n, v) == [kind |-> "Custom", name |-> n, value |-> v]

CONTENT_ENCODING == <<"C", "o", "n", "t", "e", "n", "t", "-", "E", "n", "c", "o", "d", "i", "n", "g">>
CONTENT_TYPE == <<"C", "o", "n", "t", "e", "n", "t", "-", "T", "y", "p", "e">>
CONTENT_LENGTH == <<"C", "o", "n", "t", "e", "n", "t", "-", "L", "e", "n", "g", "t", "h">>

\* Header::name
HeaderName(h) ==
    CASE h.kind = "ContentEncoding" -> CONTENT_ENCODING
      [] h.kind = "ContentType" -> CONTENT_TYPE
      [] OTHER -> h.name

\* Header::value
HeaderValue(h) == h.value

\* A slip in the declaration: ContentType declared before ContentEncoding.
VariantIndexTypeFirst(h) ==
    CASE h.kind = "ContentType" -> 0
      [] h.kind = "ContentEncoding" -> 1
      [] OTHER -> 2

\* The position of a variant in the enum's declaration.
VariantIndex(h) ==
    CASE h.kind = "ContentEncoding" -> 0
      [] h.kind = "ContentType" -> 1
      [] OTHER -> 2

\* #[derive(Ord, PartialOrd)]: by variant, then by the fields in order.
HeaderCmp(a, b) ==
    IF VariantIndex(a) < VariantIndex(b) THEN -1
    ELSE IF VariantIndex(a) > VariantIndex(b) THEN 1
    ELSE IF CmpBytes(a.name, b.name) # 0 THEN CmpBytes(a.name, b.name)
    ELSE CmpBytes(a.value, b.value)

\* impl PartialEq for Header (not consulted by BTreeSet, which orders by Ord).
HeaderEq(a, b) ==
    \/ a.kind = "ContentType" /\ b.kind = "ContentType"
    \/ a.kind = "Custom" /\ b.kind = "Custom" /\ a.name = b.name

----------------------------------------------------------------------------
(* response.rs *)

OK_BYTES == <<"2", "0", "0", SP, "O", "K">>
NOT_FOUND_BYTES == <<"4", "0", "4", SP, "N", "o", "t", SP, "F", "o", "u", "n", "d">>
BAD_REQUEST_BYTES == <<"4", "0", "0", SP, "B", "a", "d", SP, "R", "e", "q", "u", "e", "s", "t">>
\* StatusCode::Created is used by connection.rs; its text is the one the
\* test post_file_201 expects on the wire.
CREATED_BYTES == <<"2", "0", "1", SP, "C", "r", "e", "a", "t", "e", "d">>

StatusCodes == {"Ok", "NotFound", "BadRequest", "Created"}

\* StatusCode::as_bytes
StatusBytes(s) ==
    CASE s = "Ok" -> OK_BYTES
      [] s = "NotFound" -> NOT_FOUND_BYTES
      [] s = "BadRequest" -> BAD_REQUEST_BYTES
      [] OTHER -> CREATED_BYTES

\* Response::new
NewResponse(status_code) ==
    [status_code |-> status_code, headers |-> {}, body |-> None]

\* BTreeSet::insert: the set keeps its element when one that compares Equal
\* is already there.
BTreeInsert(set, h) ==
    IF \E e \in set : HeaderCmp(e, h) = 0 THEN set ELSE set \cup {h}

\* Response::add_header
AddHeader(r, h) == [r EXCEPT !.headers = BTreeInsert(r.headers, h)]

\* Response::body
SetBody(r, b) ==
    [AddHeader(r, Custom(CONTENT_LENGTH, UsizeToString(Len(b)))) EXCEPT !.body = Some(b)]

\* Iteration of a BTreeSet: ascending by Ord.
RECURSIVE InOrder(_)
InOrder(set) ==
    IF set = {} THEN <<>>
    ELSE LET least == CHOOSE h \in set : \A e \in set : HeaderCmp(h, e) <= 0
         IN <<least>> \o InOrder(set \ {least})

RECURSIVE EncodeHeaders(_)
EncodeHeaders(hs) ==
    IF hs = <<>> THEN <<>>
    ELSE HeaderName(Head(hs)) \o <<":", SP>> \o HeaderValue(Head(hs)) \o CRLF
         \o EncodeHeaders(Tail(hs))

\* Response::encode
Encode(r) ==
    VERSION \o <<SP>> \o StatusBytes(r.status_code) \o CRLF
    \o EncodeHeaders(InOrder(r.headers))
    \o CRLF
    \o (IF r.body # None THEN r.body[1] ELSE <<>>)

----------------------------------------------------------------------------
(* Building and encoding a Response: any calls of add_header and body,     *)
(* then encode.                                                            *)

MaxCalls == 3

TEXT_PLAIN == <<"t", "e", "x", "t", "/", "p", "l", "a", "i", "n">>
OCTET_STREAM == <<"a", "p", "p", "l", "i", "c", "a", "t", "i", "o", "n", "/",
                  "o", "c", "t", "e", "t", "-", "s", "t", "r", "e", "a", "m">>
RUST == <<"r", "u", "s", "t">>

HeaderInputs ==
    { ContentEncoding(GZIP), ContentEncoding(<<"b", "r">>),
      ContentType(TEXT_PLAIN), ContentType(OCTET_STREAM),
      Custom(<<"a", "b", "c">>, <<"d", "e", "f">>),
      Custom(<<"a", "b", "c">>, <<"x">>),
      Custom(CONTENT_LENGTH, <<"7">>) }

BodyInputs ==
    { <<>>, RUST, <<"H", "e", "l", "l", "o", SP, "w", "o", "r", "l", "d">> }

RespIdle ==
    /\ resp = NewResponse("Ok")
    /\ calls = <<>>
    /\ encoded = None
    /\ rpc = "idle"

RInit ==
    /\ \E s \in StatusCodes : resp = NewResponse(s)
    /\ calls = <<>>
    /\ encoded = None
    /\ rpc = "building"

RAddHeader ==
    /\ rpc = "building"
    /\ Len(calls) < MaxCalls
    /\ \E h \in HeaderInputs :
        /\ resp' = AddHeader(resp, h)
        /\ calls' = Append(calls, [op |-> "add_header", header |-> h, bytes |-> <<>>])
    /\ UNCHANGED <<encoded, rpc>>
    /\ UNCHANGED <<connVars, mainVars>>

RBody ==
    /\ rpc = "building"
    /\ Len(calls) < MaxCalls
    /\ \E b \in BodyInputs :
        /\ resp' = SetBody(resp, b)
        /\ calls' = Append(calls, [op |-> "body", header |-> Custom(<<>>, <<>>), bytes |-> b])
    /\ UNCHANGED <<encoded, rpc>>
    /\ UNCHANGED <<connVars, mainVars>>

REncode ==
    /\ rpc = "building"
    /\ encoded' = Some(Encode(resp))
    /\ rpc' = "encoded"
    /\ UNCHANGED <<resp, calls>>
    /\ UNCHANGED <<connVars, mainVars>>

----------------------------------------------------------------------------
(* request.rs *)

BUFFER_SIZE == 32

GET == <<"G", "E", "T">>
POST == <<"P", "O", "S", "T">>

Min(a, b) == IF a < b THEN a ELSE b

\* slice.split(|x| x == &sep): the pieces between the occurrences of sep;
\* there is always at least one piece.
RECURSIVE Split(_, _)
Split(s, sep) ==
    LET i == Position(s, <<sep>>)
    IN IF i = -1 THEN <<s>>
       ELSE <<SubSeq(s, 1, i)>> \o Split(SubSeq(s, i + 2, Len(s)), sep)

\* std::str::from_utf8 succeeds
ValidUtf8(s) == \A i \in 1..Len(s) : s[i] # XFF

\* char::is_whitespace, on the bytes of the model
IsWhitespace(c) == c \in {SP, CR, LF}

\* str::trim
RECURSIVE TrimStart(_)
TrimStart(s) ==
    IF s # <<>> /\ IsWhitespace(Head(s)) THEN TrimStart(Tail(s)) ELSE s
RECURSIVE TrimEnd(_)
TrimEnd(s) ==
    IF s # <<>> /\ IsWhitespace(s[Len(s)]) THEN TrimEnd(SubSeq(s, 1, Len(s) - 1)) ELSE s
Trim(s) == TrimEnd(TrimStart(s))

\* char::to_lowercase, on the bytes of the model
LowerByte(c) ==
    CASE c = "A" -> "a" [] c = "B" -> "b" [] c = "C" -> "c" [] c = "E" -> "e"
      [] c = "G" -> "g" [] c = "H" -> "h" [] c = "L" -> "l" [] c = "N" -> "n"
      [] c = "O" -> "o" [] c = "P" -> "p" [] c = "R" -> "r" [] c = "S" -> "s"
      [] c = "T" -> "t" [] c = "U" -> "u" [] c = "X" -> "x"
      [] OTHER -> c
\* str::to_lowercase
ToLowercase(s) == [i \in 1..Len(s) |-> LowerByte(s[i])]

\* BufRead::lines over a byte slice: each line runs to the next LF; the LF
\* and a CR right before it are dropped; a last line without LF is kept as
\* it is.
RECURSIVE Lines(_)
Lines(buf) ==
    IF buf = <<>> THEN <<>>
    ELSE LET i == Position(buf, <<LF>>)
             raw == IF i = -1 THEN buf ELSE SubSeq(buf, 1, i)
             rest == IF i = -1 THEN <<>> ELSE SubSeq(buf, i + 2, Len(buf))
             line == IF i # -1 /\ raw # <<>> /\ raw[Len(raw)] = CR
                     THEN SubSeq(raw, 1, Len(raw) - 1)
                     ELSE raw
         IN <<line>> \o Lines(rest)

\* HashMap::insert
MapInsert(map, k, v) ==
    [x \in (DOMAIN map) \cup {k} |-> IF x = k THEN v ELSE map[x]]

\* The header loop of Request::decode: `while let Some(Ok(header))` ends at
\* the end of the block and also, silently, at a line that is not UTF-8.
RECURSIVE ParseHeaders(_, _)
ParseHeaders(lines, map) ==
    IF lines = <<>> \/ ~ValidUtf8(Head(lines)) THEN [ok |-> TRUE, map |-> map]
    ELSE LET header == Head(lines)
             colon == Position(header, <<":">>)
         IN IF colon = -1 THEN [ok |-> FALSE, map |-> map]
            ELSE ParseHeaders(Tail(lines),
                     MapInsert(map,
                               ToLowercase(Trim(SubSeq(header, 1, colon))),
                               Trim(SubSeq(header, colon + 2, Len(header)))))

Err(e) ==
    [ok |-> FALSE, err |-> e, method |-> "", target |-> <<>>,
     headers |-> <<>>, body |-> None]
Ok(method, target, headers, body) ==
    [ok |-> TRUE, err |-> "", method |-> method, target |-> target,
     headers |-> headers, body |-> body]

\* Method::decode; "" stands for Err(UnsupportedMethod)
MethodDecode(data) ==
    CASE data = GET -> "Get"
      [] data = POST -> "Post"
      [] OTHER -> ""

\* A slip in the order of the checks: the target is looked for before the
\* method is decoded.
RequestLineErrorTargetFirst(parts) ==
    IF parts[1] = <<>> THEN "MissingHTTPMethod"
    ELSE IF Len(parts) < 2 THEN "MissingRequestTarget"
    ELSE IF MethodDecode(parts[1]) = "" THEN "UnsupportedMethod"
    ELSE IF Len(parts) < 3 THEN "MissingHTTPVersion"
    ELSE IF parts[3] # VERSION THEN "UnsupportedHTTPVersion"
    ELSE ""

\* The checks of the request line's parts, in the order of the code: the
\* error of the first that fails, "" when all pass.
RequestLineError(parts) ==
    IF parts[1] = <<>> THEN "MissingHTTPMethod"
    ELSE IF MethodDecode(parts[1]) = "" THEN "UnsupportedMethod"
    ELSE IF Len(parts) < 2 THEN "MissingRequestTarget"
    ELSE IF Len(parts) < 3 THEN "MissingHTTPVersion"
    ELSE IF parts[3] # VERSION THEN "UnsupportedHTTPVersion"
    ELSE ""

\* Request::decode after its read loop: the parse of the bytes received.
ParseRequest(received) ==
    LET cr_index == Position(received, CRLF) IN
    IF cr_index = -1 THEN Err("MissingRequestLine") ELSE
    LET request_line == SubSeq(received, 1, cr_index)
        after_line == SubSeq(received, cr_index + 3, Len(received))
        parts == Split(request_line, SP)
    IN
    IF RequestLineError(parts) # "" THEN Err(RequestLineError(parts)) ELSE
    LET crcr_index == Position(after_line, CRLF \o CRLF)
        headers_buf == IF crcr_index = -1 THEN <<>>
                       ELSE SubSeq(after_line, 1, crcr_index)
        remaining == IF crcr_index = -1 THEN after_line
                     ELSE SubSeq(after_line, crcr_index + 5, Len(after_line))
        parsed == ParseHeaders(Lines(headers_buf), <<>>)
    IN
    IF ~parsed.ok THEN Err("InvalidHeader") ELSE
    IF ~ValidUtf8(parts[2]) THEN Err("FromUtf8Error") ELSE
    Ok(MethodDecode(parts[1]), parts[2], parsed.map,
       IF remaining = <<>> THEN None ELSE Some(remaining))

----------------------------------------------------------------------------
(* The stream under Request::decode.  Connection::process wraps the stream *)
(* in a BufReader: a read by decode is served from the BufReader's buffer, *)
(* and only when that is empty does the BufReader read the stream, taking  *)
(* whatever the stream has to give at that moment.                         *)

StreamIdle ==
    /\ sent = [tokens |-> <<>>, eol |-> FALSE, block |-> <<>>, blank |-> FALSE, body |-> <<>>]
    /\ input = <<>>
    /\ peer = "idle"
    /\ segmented = FALSE
    /\ read_timeout = FALSE
    /\ directory = None
    /\ files = <<>>
    /\ wire = <<>>
    /\ rdbuf = <<>>
    /\ bytes_received = <<>>
    /\ request = None
    /\ response = None
    /\ ops = <<>>
    /\ outcome = "none"
    /\ pc = "idle"

\* A call on the stream, as the log of the connection keeps it: the bytes
\* read or handed to write_all, and the error kind when the call failed.
StreamOp(op, data, err) == [op |-> op, data |-> data, err |-> err]

\* The sizes of the pieces in which the stream may hand over its pending
\* bytes: any, when the transport segments them; all at once otherwise.
ChunkSizes == IF segmented THEN 1..Len(wire) ELSE {Len(wire)}

\* What decode does once its loop has ended: parse, and return to process.
DecodeReturns(received) ==
    LET r == ParseRequest(received) IN
    /\ request' = Some(r)
    /\ IF r.ok
       THEN pc' = "dispatching" /\ outcome' = outcome
       ELSE pc' = "returned" /\ outcome' = r.err

\* One turn of decode's loop that took `read` bytes, `received` being all
\* the bytes so far: the loop ends when the 32-byte buffer was not filled.
AfterRead(received, read) ==
    /\ bytes_received' = received
    /\ IF read < BUFFER_SIZE
       THEN DecodeReturns(received)
       ELSE UNCHANGED <<request, outcome, pc>>

\* reader.read served from the BufReader's buffer.
ReadBuffered ==
    /\ pc = "decoding"
    /\ rdbuf # <<>>
    /\ LET read == Min(BUFFER_SIZE, Len(rdbuf)) IN
        /\ rdbuf' = SubSeq(rdbuf, read + 1, Len(rdbuf))
        /\ AfterRead(bytes_received \o SubSeq(rdbuf, 1, read), read)
    /\ UNCHANGED <<sent, input, peer, segmented, read_timeout, directory, files,
                   wire, response, ops>>
    /\ UNCHANGED <<respVars, mainVars>>

\* reader.read with the buffer empty: the BufReader reads the stream, which
\* hands over k bytes, of which decode gets at most 32.
ReadStream ==
    /\ pc = "decoding"
    /\ rdbuf = <<>>
    /\ wire # <<>>
    /\ \E k \in ChunkSizes :
        LET read == Min(BUFFER_SIZE, k) IN
        /\ wire' = SubSeq(wire, k + 1, Len(wire))
        /\ rdbuf' = SubSeq(wire, read + 1, k)
        /\ ops' = Append(ops, StreamOp("read", SubSeq(wire, 1, k), ""))
        /\ AfterRead(bytes_received \o SubSeq(wire, 1, read), read)
    /\ UNCHANGED <<sent, input, peer, segmented, read_timeout, directory, files, response>>
    /\ UNCHANGED <<respVars, mainVars>>

\* Ok(0): the peer has closed its side and nothing is left.
ReadEof ==
    /\ pc = "decoding"
    /\ rdbuf = <<>> /\ wire = <<>>
    /\ peer = "closes"
    /\ ops' = Append(ops, StreamOp("read", <<>>, ""))
    /\ DecodeReturns(bytes_received)
    /\ UNCHANGED <<sent, input, peer, segmented, read_timeout, directory, files,
                   wire, rdbuf, bytes_received, response>>
    /\ UNCHANGED <<respVars, mainVars>>

\* Err(TimedOut | WouldBlock): the peer sends nothing more and the stream
\* has a read timeout.
ReadTimeout ==
    /\ pc = "decoding"
    /\ rdbuf = <<>> /\ wire = <<>>
    /\ peer = "waits" /\ read_timeout
    /\ \E kind \in {"TimedOut", "WouldBlock"} :
        ops' = Append(ops, StreamOp("read", <<>>, kind))
    /\ request' = Some(Err("RequestTimeout"))
    /\ outcome' = "RequestTimeout"
    /\ pc' = "returned"
    /\ UNCHANGED <<sent, input, peer, segmented, read_timeout, directory, files,
                   wire, rdbuf, bytes_received, response>>
    /\ UNCHANGED <<respVars, mainVars>>

\* The same read on a stream without a read timeout never returns.
ReadBlocks ==
    /\ pc = "decoding"
    /\ rdbuf = <<>> /\ wire = <<>>
    /\ peer = "waits" /\ ~read_timeout
    /\ ops' = Append(ops, StreamOp("read", <<>>, "Blocked"))
    /\ pc' = "blocked"
    /\ UNCHANGED <<sent, input, peer, segmented, read_timeout, directory, files,
                   wire, rdbuf, bytes_received, request, response, outcome>>
    /\ UNCHANGED <<respVars, mainVars>>

\* Err of any other kind (a reset connection): returned as it is.
ReadError ==
    /\ pc = "decoding"
    /\ rdbuf = <<>>
    /\ ops' = Append(ops, StreamOp("read", <<>>, "ConnectionReset"))
    /\ request' = Some(Err("Io"))
    /\ outcome' = "ReadError"
    /\ pc' = "returned"
    /\ UNCHANGED <<sent, input, peer, segmented, read_timeout, directory, files,
                   wire, rdbuf, bytes_received, response>>
    /\ UNCHANGED <<respVars, mainVars>>

----------------------------------------------------------------------------
(* connection.rs *)

ROOT == <<"/">>
ECHO_PREFIX == <<"/", "e", "c", "h", "o", "/">>
USER_AGENT_TARGET == <<"/", "u", "s", "e", "r", "-", "a", "g", "e", "n", "t">>
FILES_PREFIX == <<"/", "f", "i", "l", "e", "s">>
FILES_SLASH_PREFIX == <<"/", "f", "i", "l", "e", "s", "/">>
ACCEPT_ENCODING == <<"a", "c", "c", "e", "p", "t", "-", "e", "n", "c", "o", "d", "i", "n", "g">>
USER_AGENT == <<"u", "s", "e", "r", "-", "a", "g", "e", "n", "t">>

\* str::strip_prefix
StripPrefix(s, p) ==
    IF StartsWith(s, p) THEN Some(SubSeq(s, Len(p) + 1, Len(s))) ELSE None

\* PathBuf::push: an absolute component replaces the path, any other is
\* appended after a separator.
PathPush(path, component) ==
    IF StartsWith(component, <<"/">>) THEN component
    ELSE IF path = <<>> \/ EndsWith(path, <<"/">>) THEN path \o component
    ELSE path \o <<"/">> \o component

\* The path of a file route: the directory, when there is one, then the
\* file name.
FilePath(dir, filename) ==
    PathPush(IF dir # None THEN PathPush(<<>>, dir[1]) ELSE <<>>, filename)

\* The arm `(Method::Post, target) if target.starts_with("/files")`
IsPostFiles(req) == req.method = "Post" /\ StartsWith(req.target, FILES_PREFIX)

\* The match of Connection::process, but for the POST arm: the first arm
\* whose pattern and guard hold.
Route(req, dir, fs) ==
    IF req.method = "Get" /\ req.target = ROOT THEN NewResponse("Ok")
    ELSE IF req.method = "Get" /\ StartsWith(req.target, ECHO_PREFIX) THEN
        LET r1 == AddHeader(NewResponse("Ok"), ContentType(TEXT_PLAIN))
            r2 == IF ACCEPT_ENCODING \in DOMAIN req.headers
                     /\ req.headers[ACCEPT_ENCODING] \in SUPPORTED_ENCODINGS
                  THEN AddHeader(r1, ContentEncoding(GZIP))
                  ELSE r1
        IN SetBody(r2, StripPrefix(req.target, ECHO_PREFIX)[1])
    ELSE IF req.method = "Get" /\ req.target = USER_AGENT_TARGET THEN
        IF USER_AGENT \in DOMAIN req.headers
        THEN SetBody(AddHeader(NewResponse("Ok"), ContentType(TEXT_PLAIN)),
                     req.headers[USER_AGENT])
        ELSE NewResponse("BadRequest")
    ELSE IF req.method = "Get" /\ StartsWith(req.target, FILES_SLASH_PREFIX) THEN
        LET path == FilePath(dir, StripPrefix(req.target, FILES_SLASH_PREFIX)[1])
        IN IF path \in DOMAIN fs
           THEN SetBody(AddHeader(NewResponse("Ok"), ContentType(OCTET_STREAM)),
                        fs[path])
           ELSE NewResponse("NotFound")
    ELSE NewResponse("NotFound")

\* process from the match to `Sending`, for every arm but the POST arm.
Dispatch ==
    /\ pc = "dispatching"
    /\ ~IsPostFiles(request[1])
    /\ response' = Some(Route(request[1], directory, files))
    /\ pc' = "writing"
    /\ UNCHANGED <<sent, input, peer, segmented, read_timeout, directory, files,
                   wire, rdbuf, bytes_received, request, ops, outcome>>
    /\ UNCHANGED <<respVars, mainVars>>

\* The POST arm: two unwraps, then fs::write, whose result is dropped.  An
\* unwrap of None panics and process unwinds.
DispatchPostFiles ==
    /\ pc = "dispatching"
    /\ IsPostFiles(request[1])
    /\ LET filename == StripPrefix(request[1].target, FILES_SLASH_PREFIX)
           body == request[1].body
       IN IF filename = None \/ body = None
          THEN /\ pc' = "unwinding"
               /\ outcome' = "panic"
               /\ UNCHANGED <<files, response>>
          ELSE /\ \E written \in BOOLEAN :
                    files' = IF written
                             THEN MapInsert(files, FilePath(directory, filename[1]), body[1])
                             ELSE files
               /\ response' = Some(NewResponse("Created"))
               /\ pc' = "writing"
               /\ UNCHANGED outcome
    /\ UNCHANGED <<sent, input, peer, segmented, read_timeout, directory,
                   wire, rdbuf, bytes_received, request, ops>>
    /\ UNCHANGED <<respVars, mainVars>>

\* self.stream.write_all(&response.encode())?
Write ==
    /\ pc = "writing"
    /\ \E ok \in BOOLEAN :
        /\ ops' = Append(ops, StreamOp("write_all", Encode(response[1]),
                                    IF ok THEN "" ELSE "BrokenPipe"))
        /\ outcome' = IF ok THEN "Ok" ELSE "WriteError"
    /\ pc' = "returned"
    /\ UNCHANGED <<sent, input, peer, segmented, read_timeout, directory, files,
                   wire, rdbuf, bytes_received, request, response>>
    /\ UNCHANGED <<respVars, mainVars>>

\* A Connection whose drop leaves the stream as it is.
DropWithoutShutdown ==
    /\ pc \in {"returned", "unwinding"}
    /\ pc' = "closed"
    /\ UNCHANGED <<sent, input, peer, segmented, read_timeout, directory, files,
                   wire, rdbuf, bytes_received, request, response, ops, outcome>>
    /\ UNCHANGED <<respVars, mainVars>>

\* impl Drop for Connection: shutdown(Both), its error only logged.  The
\* Connection is dropped after process has returned or while it unwinds.
Drop ==
    /\ pc \in {"returned", "unwinding"}
    /\ \E ok \in BOOLEAN :
        ops' = Append(ops, StreamOp("shutdown", <<>>, IF ok THEN "" ELSE "NotConnected"))
    /\ pc' = "closed"
    /\ UNCHANGED <<sent, input, peer, segmented, read_timeout, directory, files,
                   wire, rdbuf, bytes_received, request, response, outcome>>
    /\ UNCHANGED <<respVars, mainVars>>

----------------------------------------------------------------------------
(* The requests sent to a connection *)

MaxHeaderLines == 2

RECURSIVE Join(_, _)
Join(pieces, sep) ==
    IF pieces = <<>> THEN <<>>
    ELSE IF Len(pieces) = 1 THEN pieces[1]
    ELSE pieces[1] \o sep \o Join(Tail(pieces), sep)

HTTP_1_0 == <<"H", "T", "T", "P", "/", "1", ".", "0">>

MethodTokens == {GET, POST, <<"P", "U", "T">>, <<>>}

\* The two long targets make requests of exactly BUFFER_SIZE bytes: 15
\* bytes with GET, 14 with POST.
TargetTokens ==
    { ROOT, USER_AGENT_TARGET, FILES_PREFIX,
      ECHO_PREFIX \o <<"a", "b">>,
      ECHO_PREFIX \o <<"a", "b", "c", "d", "e", "f", "g", "h", "i">>,
      FILES_SLASH_PREFIX \o <<"a">>,
      FILES_SLASH_PREFIX \o <<"b">>,
      FILES_SLASH_PREFIX \o <<"a", "b", "c", "d", "e", "f", "g">>,
      FILES_PREFIX \o <<"x">>,
      <<"/", "n", "f">>,
      <<"/", XFF>>,
      <<>> }

\* Request lines as their space-separated tokens: one to three tokens, and
\* three tokens with an extra space before or after the target.
RequestLineTokens ==
    {<<m>> : m \in MethodTokens}
    \cup {<<m, t>> : m \in MethodTokens, t \in TargetTokens}
    \cup {<<m, t, v>> : m \in MethodTokens, t \in TargetTokens, v \in {VERSION, HTTP_1_0}}
    \cup {<<m, <<>>, t, VERSION>> : m \in {GET, POST}, t \in {ROOT, <<"/", "n", "f">>}}
    \cup {<<m, t, <<>>, VERSION>> : m \in {GET, POST}, t \in {ROOT, <<"/", "n", "f">>}}

HeaderLineInputs ==
    { <<"H", "o", "s", "t", ":", SP, "a", ":", "b">>,
      <<"h", "o", "s", "t", ":", "c">>,
      <<SP, "U", "s", "e", "r", "-", "A", "g", "e", "n", "t", SP, ":", SP, "r", "u", "s", "t", SP>>,
      <<"A", "c", "c", "e", "p", "t", "-", "E", "n", "c", "o", "d", "i", "n", "g", ":", SP, "g", "z", "i", "p">>,
      <<"A", "c", "c", "e", "p", "t", "-", "E", "n", "c", "o", "d", "i", "n", "g", ":", SP, "b", "r">>,
      <<"B", "a", "d">>,
      <<"X", XFF, ":", SP, "1">> }

HeaderBlocks ==
    UNION {[1..n -> HeaderLineInputs] : n \in 0..MaxHeaderLines}

RequestBodies == {<<>>, RUST, <<"x", CR, LF, CR, LF, "y">>}

HeaderRequestLines ==
    { <<GET, ROOT, VERSION>>,
      <<GET, USER_AGENT_TARGET, VERSION>>,
      <<GET, ECHO_PREFIX \o <<"a", "b">>, VERSION>>,
      <<POST, FILES_SLASH_PREFIX \o <<"a">>, VERSION>> }

\* A request as the client composes it: the tokens of the request line,
\* whether a CRLF ends the line, the header lines, whether a blank line ends
\* the header block, and the body.
SentRequest(tokens, eol, block, blank, body) ==
    [tokens |-> tokens, eol |-> eol, block |-> block, blank |-> blank, body |-> body]

\* The bytes of a request on the wire.
Compose(r) ==
    Join(r.tokens, <<SP>>)
    \o (IF r.eol THEN CRLF ELSE <<>>)
    \o Join([i \in 1..Len(r.block) |-> r.block[i] \o CRLF], <<>>)
    \o (IF r.blank THEN CRLF ELSE <<>>)
    \o r.body

\* Every request line, sent without headers: complete, without the blank
\* line, and without any CRLF.
LineRequests ==
    {SentRequest(ts, e[1], <<>>, e[2], <<>>) :
        ts \in RequestLineTokens,
        e \in {<<TRUE, TRUE>>, <<TRUE, FALSE>>, <<FALSE, FALSE>>}}

\* A few well-formed request lines, sent with every header block and body.
HeaderRequests ==
    {SentRequest(ts, TRUE, block, TRUE, body) :
        ts \in HeaderRequestLines, block \in HeaderBlocks, body \in RequestBodies}

Requests == LineRequests \cup HeaderRequests

\* The requests that are also tried in every segmentation: the complete
\* requests without headers whose line is well-formed.
SegmentedRequests ==
    {SentRequest(<<m, t, VERSION>>, TRUE, <<>>, TRUE, <<>>) :
        m \in {GET, POST}, t \in TargetTokens \ {<<>>, <<"/", XFF>>}}

Directories == {None, Some(<<"d">>)}

\* The files on disk when the connection is accepted.
InitialFiles == (<<"d", "/", "a">> :> <<"h", "i">>)

MentionsFiles(bytes) == Position(bytes, FILES_PREFIX) # -1

ConnInit ==
    /\ sent \in Requests
    /\ input = Compose(sent)
    /\ peer \in {"waits", "closes"}
    /\ segmented \in BOOLEAN
    /\ segmented => sent \in SegmentedRequests
    /\ read_timeout \in BOOLEAN
    /\ directory \in Directories
    /\ directory # None => MentionsFiles(input)
    /\ files = InitialFiles
    /\ wire = input
    /\ rdbuf = <<>>
    /\ bytes_received = <<>>
    /\ request = None
    /\ response = None
    /\ ops = <<>>
    /\ outcome = "none"
    /\ pc = "decoding"

----------------------------------------------------------------------------
(* main.rs *)

MaxConnections == 3

MainIdle ==
    /\ mpc = "idle"
    /\ mclient = [bytes |-> <<>>, peer |-> "idle"]
    /\ mline = None
    /\ mlog = <<>>
    /\ served = 0

\* str::split_whitespace: the non-empty pieces between whitespace.
SplitWhitespace(s) ==
    SelectSeq(Split([i \in 1..Len(s) |-> IF IsWhitespace(s[i]) THEN SP ELSE s[i]], SP),
              LAMBDA piece : piece # <<>>)

MAIN_GET_ROOT == Join(<<GET, ROOT, VERSION>>, <<SP>>) \o CRLF \o CRLF
MAIN_GET_NF == Join(<<GET, <<"/", "n", "f">>, VERSION>>, <<SP>>) \o CRLF \o CRLF

\* What a client does on its connection: the bytes it sends, and whether
\* it then waits for the reply or closes its side.
MainClients ==
    [bytes : { MAIN_GET_ROOT, MAIN_GET_NF,
               GET \o CRLF,
               Join(<<GET, ROOT, VERSION>>, <<SP>>),
               <<XFF>> \o CRLF,
               <<>> },
     peer : {"waits", "closes"}]

MInit ==
    /\ mpc = "accepting"
    /\ mclient = [bytes |-> <<>>, peer |-> "idle"]
    /\ mline = None
    /\ mlog = <<>>
    /\ served = 0

\* listener.incoming() yields Ok(stream)
MAccept ==
    /\ mpc = "accepting"
    /\ served < MaxConnections
    /\ mclient' \in MainClients
    /\ mline' = None
    /\ mpc' = "reading"
    /\ UNCHANGED <<mlog, served>>
    /\ UNCHANGED <<respVars, connVars>>

\* listener.incoming() yields Err(e): logged, and the loop goes on
MAcceptError ==
    /\ mpc = "accepting"
    /\ served < MaxConnections
    /\ mlog' = Append(mlog, "accept error")
    /\ served' = served + 1
    /\ UNCHANGED <<mpc, mclient, mline>>
    /\ UNCHANGED <<respVars, connVars>>

\* buf_reader.lines().next() up to the destructuring of the request line.
\* The read returns at a LF or at the end of the stream; the stream has no
\* read timeout.  Every `?` returns from main.
MReadLine ==
    /\ mpc = "reading"
    /\ LET has_line == Position(mclient.bytes, <<LF>>) # -1 IN
       IF ~has_line /\ mclient.peer = "waits"
       THEN mpc' = "blocked" /\ UNCHANGED mline
       ELSE IF mclient.bytes = <<>>
       THEN mpc' = "exited" /\ UNCHANGED mline    \* MissingRequestLine
       ELSE LET request_line == Lines(mclient.bytes)[1]
                parts == SplitWhitespace(request_line)
            IN IF ~ValidUtf8(request_line)
               THEN mpc' = "exited" /\ UNCHANGED mline
               ELSE IF Len(parts) < 3
               THEN mpc' = "exited" /\ UNCHANGED mline    \* InvalidRequestLine
               ELSE mpc' = "responding" /\ mline' = Some(parts[2])
    /\ UNCHANGED <<mclient, mlog, served>>
    /\ UNCHANGED <<respVars, connVars>>

\* The read fails: `??` returns the error from main.
MReadError ==
    /\ mpc = "reading"
    /\ mpc' = "exited"
    /\ UNCHANGED <<mclient, mline, mlog, served>>
    /\ UNCHANGED <<respVars, connVars>>

\* stream.write_all(..)?, then the stream is dropped and the loop goes on;
\* a failed write returns from main.
MRespond ==
    /\ mpc = "responding"
    /\ \E ok \in BOOLEAN :
        IF ok
        THEN /\ mlog' = Append(mlog, IF mline[1] = ROOT THEN "200" ELSE "404")
             /\ served' = served + 1
             /\ mpc' = "accepting"
        ELSE /\ mpc' = "exited"
             /\ UNCHANGED <<mlog, served>>
    /\ UNCHANGED <<mclient, mline>>
    /\ UNCHANGED <<respVars, connVars>>

MNext == MAccept \/ MAcceptError \/ MReadLine \/ MReadError \/ MRespond

InitMain == MInit /\ StreamIdle /\ RespIdle

SpecMain == InitMain /\ [][MNext]_vars

----------------------------------------------------------------------------
(* Specifications *)

Init == ConnInit /\ RespIdle /\ MainIdle

Next ==
    \/ ReadBuffered
    \/ ReadStream
    \/ ReadEof
    \/ ReadTimeout
    \/ ReadBlocks
    \/ ReadError
    \/ Dispatch
    \/ DispatchPostFiles
    \/ Write
    \/ Drop

Spec == Init /\ [][Next]_vars

InitResponse == RInit /\ StreamIdle /\ MainIdle

RNext == RAddHeader \/ RBody \/ REncode

SpecResponse == InitResponse /\ [][RNext]_vars

----------------------------------------------------------------------------
(* Properties of the connection lifecycle *)

\* The places in the log of the stream's operations of one kind.
OpsOf(kind) == {i \in 1..Len(ops) : ops[i].op = kind}

\* C1: on every path through process and the drop of the Connection, the
\* stream sees one or more reads, then at most one write_all, of the whole
\* encoded response, then one shutdown, which is its last operation; when
\* decode returned an error there is no write.
C1_StreamOperations ==
    /\ \A i \in OpsOf("shutdown") : i = Len(ops) /\ pc = "closed"
    /\ Cardinality(OpsOf("write_all")) <= 1
    /\ \A i \in OpsOf("write_all") :
        /\ \A j \in OpsOf("read") : j < i
        /\ request # None /\ request[1].ok
        /\ response # None /\ ops[i].data = Encode(response[1])
    /\ (request # None /\ ~request[1].ok) => OpsOf("write_all") = {}
    /\ pc = "closed" =>
        /\ Cardinality(OpsOf("shutdown")) = 1
        /\ ops[Len(ops)].op = "shutdown"
        /\ ops[1].op = "read"

\* A connection closed after two reads and the write of a response.
C1_Witness ==
    /\ pc = "closed"
    /\ Cardinality(OpsOf("read")) >= 2
    /\ OpsOf("write_all") # {}

\* C2: dispatch never fails: once decode has returned a Request, process
\* builds one Response and writes it, without panicking; a POST whose
\* target starts with /files is answered 201, with or without a body, with
\* or without a / after /files, whether or not the file was written.
C2_DispatchNeverFails ==
    (request # None /\ request[1].ok /\ pc \notin {"decoding", "dispatching"}) =>
        /\ outcome # "panic"
        /\ response # None
        /\ IsPostFiles(request[1]) => response[1].status_code = "Created"
        /\ pc \in {"returned", "closed"} => Cardinality(OpsOf("write_all")) = 1

\* The response the routing rules give, first match first.
RuleResponse(req, dir, fs) ==
    LET plain(status) == [status_code |-> status, headers |-> {}, body |-> None]
        with(type, bytes, more) ==
            [status_code |-> "Ok",
             headers |-> {ContentType(type),
                          Custom(CONTENT_LENGTH, UsizeToString(Len(bytes)))} \cup more,
             body |-> Some(bytes)]
        rest(n) == SubSeq(req.target, n + 1, Len(req.target))
    IN
    IF req.method = "Get" /\ req.target = ROOT THEN plain("Ok")
    ELSE IF req.method = "Get" /\ StartsWith(req.target, ECHO_PREFIX) THEN
        with(TEXT_PLAIN, rest(6),
             IF ACCEPT_ENCODING \in DOMAIN req.headers /\ req.headers[ACCEPT_ENCODING] = GZIP
             THEN {ContentEncoding(GZIP)} ELSE {})
    ELSE IF req.method = "Get" /\ req.target = USER_AGENT_TARGET THEN
        IF USER_AGENT \in DOMAIN req.headers
        THEN with(TEXT_PLAIN, req.headers[USER_AGENT], {})
        ELSE plain("BadRequest")
    ELSE IF req.method = "Get" /\ StartsWith(req.target, FILES_SLASH_PREFIX) THEN
        IF FilePath(dir, rest(7)) \in DOMAIN fs
        THEN with(OCTET_STREAM, fs[FilePath(dir, rest(7))], {})
        ELSE plain("NotFound")
    ELSE IF req.method = "Post" /\ StartsWith(req.target, FILES_PREFIX) THEN plain("Created")
    ELSE plain("NotFound")

\* C7: for every decoded request, the response process writes is that of
\* the first matching rule: GET / 200; GET /echo/.. 200 text/plain with the
\* rest of the target (and Content-Encoding gzip for accept-encoding gzip);
\* GET /user-agent 200 with the header's value, or 400; GET /files/.. 200
\* with the file, or 404; POST /files.. 201; anything else 404.
C7_FirstMatchingRule ==
    (request # None /\ request[1].ok /\ pc \in {"returned", "unwinding", "closed"}) =>
        \E i \in OpsOf("write_all") :
            ops[i].data = Encode(RuleResponse(request[1], directory, InitialFiles))

\* The same, for the requests on which process does not panic.
RoutingButForPanics ==
    (request # None /\ request[1].ok /\ pc \in {"returned", "closed"}
        /\ outcome # "panic") =>
        \E i \in OpsOf("write_all") :
            ops[i].data = Encode(RuleResponse(request[1], directory, InitialFiles))

----------------------------------------------------------------------------
(* Properties of Request::decode *)

\* C4: for a method of GET and POST and a non-empty target without space,
\* CR or LF, when the client sends "<method> <target> HTTP/1.1 CRLF CRLF"
\* and waits for the reply, decode returns a Request with that method and
\* that target, whatever the length of the request and however the stream
\* splits it.
C4_RoundTrip ==
    (sent \in SegmentedRequests /\ peer = "waits" /\ pc # "decoding"
        /\ outcome # "ReadError") =>
        /\ request # None
        /\ request[1].ok
        /\ request[1].method = (IF sent.tokens[1] = GET THEN "Get" ELSE "Post")
        /\ request[1].target = sent.tokens[2]

\* Whether a CRLF starts at place i of b.
CrlfAt(b, i) == i + 1 <= Len(b) /\ b[i] = CR /\ b[i + 1] = LF

\* The bytes of b before its first CRLF, split at every space.
FirstLineTokens(b) ==
    LET i == CHOOSE i \in 1..Len(b) : CrlfAt(b, i) /\ \A j \in 1..(i - 1) : ~CrlfAt(b, j)
    IN Split(SubSeq(b, 1, i - 1), SP)

\* The error the claimed order of the steps gives for the bytes b, "" when
\* the request line passes them all.
FirstFailingStep(b) ==
    IF \A i \in 1..Len(b) : ~CrlfAt(b, i) THEN "MissingRequestLine"
    ELSE LET tokens == FirstLineTokens(b) IN
         IF tokens[1] = <<>> THEN "MissingHTTPMethod"
         ELSE IF tokens[1] \notin {GET, POST} THEN "UnsupportedMethod"
         ELSE IF Len(tokens) = 1 THEN "MissingRequestTarget"
         ELSE IF Len(tokens) = 2 THEN "MissingHTTPVersion"
         ELSE IF tokens[3] # VERSION THEN "UnsupportedHTTPVersion"
         ELSE ""

\* C8: decode reports the error of the first failing step: a read that
\* fails with TimedOut or WouldBlock gives RequestTimeout with no further
\* read and nothing of what was received; then MissingRequestLine,
\* MissingHTTPMethod, UnsupportedMethod, MissingRequestTarget,
\* MissingHTTPVersion, UnsupportedHTTPVersion in this order; InvalidHeader
\* only for a request line that passed all of them.
C8_FirstFailingStep ==
    /\ \A i \in OpsOf("read") :
        ops[i].err \in {"TimedOut", "WouldBlock"} =>
            /\ request = Some(Err("RequestTimeout"))
            /\ \A j \in OpsOf("read") : j <= i
    /\ (request # None /\ request[1].err \notin {"RequestTimeout", "Io"}) =>
        LET step == FirstFailingStep(bytes_received) IN
        /\ step # "" => request[1] = Err(step)
        /\ request[1].err = "InvalidHeader" => step = ""
        /\ request[1].ok => step = ""

\* decode has refused a request line whose method and version are both
\* unsupported.
C8_Witness ==
    /\ request # None
    /\ request[1].err = "UnsupportedMethod"
    /\ sent.eol /\ Len(sent.tokens) = 3 /\ sent.tokens[3] = HTTP_1_0

\* The name and the value a header line states: the text before its first
\* colon, trimmed and in lower case, and the text after it, trimmed.
HasColon(line) == \E i \in 1..Len(line) : line[i] = ":"
FirstColon(line) == CHOOSE i \in 1..Len(line) : line[i] = ":" /\ \A j \in 1..(i - 1) : line[j] # ":"
LineName(line) == ToLowercase(Trim(SubSeq(line, 1, FirstColon(line) - 1)))
LineValue(line) == Trim(SubSeq(line, FirstColon(line) + 1, Len(line)))

\* decode has parsed the whole of a request that has a valid request line
\* and a header block, of lines of text, that a blank line ends.
ParsedWhole ==
    /\ sent.eol /\ sent.blank
    /\ FirstFailingStep(input) = ""
    /\ ValidUtf8(input)
    /\ request # None
    /\ request[1].err \notin {"RequestTimeout", "Io"}
    /\ bytes_received = input

\* The header map the lines of a block state: for each name, the value of
\* the last line with that name.
StatedHeaders(block) ==
    [n \in {LineName(block[i]) : i \in 1..Len(block)} |->
        LET last == CHOOSE i \in 1..Len(block) :
                        /\ LineName(block[i]) = n
                        /\ \A j \in (i + 1)..Len(block) : LineName(block[j]) # n
        IN LineValue(block[last])]

\* C9: for a request with a valid request line and a header block ended by
\* a blank line, the decoded map has one entry per lower-cased, trimmed
\* name, its value the trimmed text after the first colon of the last line
\* with that name; when a line of the block has no colon decode returns
\* InvalidHeader.
C9_HeaderMap ==
    ParsedWhole =>
        IF \E i \in 1..Len(sent.block) : ~HasColon(sent.block[i])
        THEN request[1] = Err("InvalidHeader")
        ELSE request[1].ok /\ request[1].headers = StatedHeaders(sent.block)

\* The same, for the requests that do have header lines.
HeaderMapOfNonEmptyBlock ==
    (ParsedWhole /\ sent.block # <<>>) =>
        IF \E i \in 1..Len(sent.block) : ~HasColon(sent.block[i])
        THEN request[1] = Err("InvalidHeader")
        ELSE request[1].ok /\ request[1].headers = StatedHeaders(sent.block)

\* C10: for every request decode accepts, body is None exactly when no
\* bytes follow the blank line that ends the header block, and is those
\* bytes otherwise; also for a request without header lines.
C10_Body ==
    (ParsedWhole /\ request[1].ok) =>
        request[1].body = (IF sent.body = <<>> THEN None ELSE Some(sent.body))

\* The same, for the requests that do have header lines.
BodyAfterNonEmptyBlock ==
    (ParsedWhole /\ request[1].ok /\ sent.block # <<>>) =>
        request[1].body = (IF sent.body = <<>> THEN None ELSE Some(sent.body))

\* The tokens of a request line: what its runs of spaces separate.
NonEmptyTokens(ts) == SelectSeq(ts, LAMBDA t : t # <<>>)

\* The request line sent has the three tokens method, target, HTTP/1.1,
\* with one or more spaces between them and none before or after.
ThreeTokensApart ==
    /\ NonEmptyTokens(sent.tokens) \in
         {<<m, t, VERSION>> : m \in {GET, POST}, t \in TargetTokens \ {<<>>}}
    /\ sent.tokens[1] # <<>>
    /\ sent.tokens[Len(sent.tokens)] # <<>>

\* The decoding of the line sent when each of its runs of spaces is a
\* single space.
WithSingleSpaces ==
    ParseRequest(Compose([sent EXCEPT !.tokens = NonEmptyTokens(sent.tokens)]))

\* C11: a request line whose tokens method, target and HTTP/1.1 are
\* separated by runs of one or more spaces decodes successfully, to the
\* method and the target of the same line with single spaces.
C11_SpaceRuns ==
    (/\ ThreeTokensApart /\ sent.eol
     /\ request # None /\ request[1].err \notin {"RequestTimeout", "Io"}
     /\ bytes_received = input
     /\ WithSingleSpaces.ok) =>
        /\ request[1].ok
        /\ request[1].method = WithSingleSpaces.method
        /\ request[1].target = WithSingleSpaces.target

\* C12: whenever decode returns Ok, the Request's target is not empty and
\* its method is GET or POST.
C12_TargetNotEmpty ==
    (request # None /\ request[1].ok) =>
        /\ request[1].target # <<>>
        /\ request[1].method \in {"Get", "Post"}

\* The part of it about the method alone.
MethodOfAcceptedRequest ==
    (request # None /\ request[1].ok) => request[1].method \in {"Get", "Post"}

----------------------------------------------------------------------------
(* Properties of Response *)

\* The pieces of s between its CRLFs.
RECURSIVE SplitCrlf(_)
SplitCrlf(s) ==
    LET i == Position(s, CRLF)
    IN IF i = -1 THEN <<s>>
       ELSE <<SubSeq(s, 1, i)>> \o SplitCrlf(SubSeq(s, i + 3, Len(s)))

\* The header lines of an encoded response: the lines after the status
\* line and before the blank line.  The body is what follows the blank line.
EncodedHeaderLines(e) == Tail(SplitCrlf(SubSeq(e, 1, Position(e, CRLF \o CRLF))))
EncodedBody(e) == SubSeq(e, Position(e, CRLF \o CRLF) + 5, Len(e))

\* The lines among `lines` that are headers of the name `name`.
LinesNamed(lines, name) ==
    {i \in 1..Len(lines) : StartsWith(lines[i], name \o <<":", SP>>)}

\* C5: after any calls of add_header and body, when the response has a
\* body, encode emits a Content-Length header with the decimal length of
\* the body it emits, and no Content-Length header of another value.
C5_ContentLength ==
    (rpc = "encoded" /\ resp.body # None) =>
        LET lines == EncodedHeaderLines(encoded[1])
            stated == LinesNamed(lines, CONTENT_LENGTH)
        IN /\ stated # {}
           /\ \A i \in stated :
                lines[i] = CONTENT_LENGTH \o <<":", SP>>
                           \o UsizeToString(Len(EncodedBody(encoded[1])))

\* C6: after any calls of add_header, the encoded response has at most one
\* header line per kind (per name for Custom), with the value of the last
\* header inserted for it.
C6_OneLinePerKind ==
    (rpc = "encoded" /\ \A c \in 1..Len(calls) : calls[c].op = "add_header") =>
        LET lines == EncodedHeaderLines(encoded[1]) IN
        \A c \in 1..Len(calls) :
            LET name == HeaderName(calls[c].header)
                last == CHOOSE d \in 1..Len(calls) :
                            /\ HeaderName(calls[d].header) = name
                            /\ \A x \in (d + 1)..Len(calls) :
                                 HeaderName(calls[x].header) # name
            IN \A i \in LinesNamed(lines, name) :
                 /\ \A j \in LinesNamed(lines, name) : j = i
                 /\ lines[i] = name \o <<":", SP>> \o HeaderValue(calls[last].header)

\* The line of a header in an encoded response.
HeaderLine(h) == HeaderName(h) \o <<":", SP>> \o HeaderValue(h) \o CRLF

\* The stated order of the header lines: Content-Encoding, then
\* Content-Type, then the custom headers by name.
StatedRank(h) ==
    IF h.kind = "ContentEncoding" THEN 0
    ELSE IF h.kind = "ContentType" THEN 1
    ELSE 2

InStatedOrder(hs) ==
    \A i, j \in 1..Len(hs) :
        i < j =>
            /\ StatedRank(hs[i]) <= StatedRank(hs[j])
            /\ (hs[i].kind = "Custom" /\ hs[j].kind = "Custom") =>
                 CmpBytes(hs[i].name, hs[j].name) <= 0

\* The headers of a set, each once, in every order.
Arrangements(set) ==
    {hs \in [1..Cardinality(set) -> set] :
        \A i, j \in 1..Cardinality(set) : hs[i] = hs[j] => i = j}

\* C13: encode returns exactly "HTTP/1.1 ", the status text, CRLF; one
\* line "Name: Value" CRLF per header of the set, Content-Encoding first,
\* then Content-Type, then the custom headers by name, whatever the order
\* of the calls that added them; one CRLF; then the body bytes if any and
\* nothing more.  Without headers and body it is the status line and CRLF
\* CRLF.
C13_EncodeExactly ==
    rpc = "encoded" =>
        /\ \E hs \in Arrangements(resp.headers) :
            /\ InStatedOrder(hs)
            /\ encoded[1] =
                 VERSION \o <<SP>> \o StatusBytes(resp.status_code) \o CRLF
                 \o Join([i \in 1..Len(hs) |-> HeaderLine(hs[i])], <<>>)
                 \o CRLF
                 \o (IF resp.body = None THEN <<>> ELSE resp.body[1])
        /\ (resp.headers = {} /\ resp.body = None) =>
             encoded[1] = VERSION \o <<SP>> \o StatusBytes(resp.status_code)
                          \o CRLF \o CRLF

\* A 201 response has been encoded after a custom header, then a
\* Content-Type, then a Content-Encoding were added to it.
C13_Witness ==
    /\ rpc = "encoded"
    /\ resp.status_code = "Created"
    /\ Len(calls) = 3
    /\ calls[1].op = "add_header" /\ calls[1].header.kind = "Custom"
    /\ calls[2].op = "add_header" /\ calls[2].header.kind = "ContentType"
    /\ calls[3].op = "add_header" /\ calls[3].header.kind = "ContentEncoding"

----------------------------------------------------------------------------
(* Properties of the accept loop *)

\* C3: no single connection stops the server: after a malformed request, a
\* failed read or write, or a client that sends nothing, the process has
\* not terminated and the accept loop is not blocked for ever on a client.
C3_ServerKeepsServing == mpc \notin {"exited", "blocked"}

====
